---------------------------- MODULE Spec2Model ----------------------------
(* A model of lib/package.c of rpm: the package reader core.               *)
(*                                                                          *)
(*   stashKeyid             the process-wide ring of signer key ids         *)
(*   headerVerifyRegion     the immutable-region check of a header blob     *)
(*   headerSigVerify        the header-only digest/signature check          *)
(*   headerMergeLegacySigs  the legacy signature-tag merge                  *)
(*   rpmpkgReadHeader, rpmpkgRead, rpmReadPackageFile   the reader itself   *)
(*                                                                          *)
(* Each part has a specification of its own (SpecSeq, SpecConc, SpecRegion, *)
(* SpecSig, SpecMerge, Spec); the variables of the other parts stay at      *)
(* their idle values.                                                       *)
EXTENDS Integers, Sequences, FiniteSets, TLC

(***************************************************************************)
(* Bounds of the model.                                                    *)
(***************************************************************************)
\* Capacity of the key-id ring. The source sets nkeyids_max = 256
\* (package.c:113); the model scales it down so that the ring fills and wraps.
nkeyids_max == 2
\* Calls of stashKeyid in one run (all threads together).
MaxCalls == 4
\* Threads calling stashKeyid concurrently.
NThreads == 2

(***************************************************************************)
(* Return codes (rpmRC).                                                   *)
(***************************************************************************)
RPMRC_OK == "OK"
RPMRC_NOTFOUND == "NOTFOUND"
RPMRC_FAIL == "FAIL"
RPMRC_NOTTRUSTED == "NOTTRUSTED"
RPMRC_NOKEY == "NOKEY"

VARIABLES
    \* statics of stashKeyid
    keyids, nkeyids, nextkeyid, keyid_lock,
    \* sequential callers of stashKeyid: the calls made so far, <<keyid, return>>
    hist, lockFailed,
    \* concurrent callers of stashKeyid
    tpc, tkeyid, tseen, ncalls, retNew, retAll,
    \* the last call of headerVerifyRegion: its blob, exact_size and result
    region,
    \* the last call of headerSigVerify: its arguments, the tag found, the result
    sigv,
    \* headerMergeLegacySigs run once and twice: h0 the header before, h1 and
    \* h2 the header after the first and the second run
    merge,
    \* rpmReadPackageFile / rpmpkgRead: where the call is, its arguments, its
    \* locals, what it hands back, and what the exit block did
    \* (ts_vsflags is rpmtsVSFlags(ts); pkg_sigh, pkg_h and pkg_sig are the
    \* locals sigh, h and sig of rpmpkgRead; keyidp is *keyidp)
    pc, ts_vsflags, leadtype, pkg_sigh, sigtag, pkg_h, pkg_sig, rc, msg, hdrp,
    keyidp, hdrinfo, steps, loglevel

stashVars == <<keyids, nkeyids, nextkeyid, keyid_lock>>
seqVars == <<hist, lockFailed>>
thrVars == <<tpc, tkeyid, tseen, ncalls, retNew, retAll>>
pkgVars == <<pc, ts_vsflags, leadtype, pkg_sigh, sigtag, pkg_h, pkg_sig, rc, msg,
             hdrp, keyidp, hdrinfo, steps, loglevel>>
restVars == <<region, sigv, merge, pkgVars>>
vars == <<stashVars, seqVars, thrVars, restVars>>

\* the idle values of the variables outside the key-id stash
NoBlob == [il |-> 0, dl |-> 0, body |-> <<>>]
RegionIdle ==
    [pc |-> "idle", blob |-> NoBlob, exact_size |-> FALSE,
     rc |-> "", ril |-> 0, rdl |-> 0]

NoSigtd == [tag |-> 0, type |-> 0, count |-> 0, size |-> 0, offset |-> 0, idx |-> -1]
SigvIdle ==
    [pc |-> "idle", vsflags |-> {}, il |-> 0, ril |-> 0, pe |-> <<>>,
     sigtd |-> NoSigtd, rc |-> ""]
MergeIdle == [pc |-> "idle", sigh |-> <<>>, h0 |-> <<>>, h1 |-> <<>>, h2 |-> <<>>]

\* a NULL Header, a NULL pgpDigParams
NullHeader == [null |-> TRUE, ents |-> <<>>]
NullSig == [null |-> TRUE, signid |-> 0]
\* what rpmpkgReadHeader saw: nothing yet
NoHdrInfo ==
    [called |-> FALSE, il |-> 0, dl |-> 0, ril |-> 0, rdl |-> 0,
     regionrc |-> "", sigVerify |-> FALSE, sigrc |-> "", rc |-> ""]

InitPkgIdle ==
    /\ pc = "idle"
    /\ ts_vsflags = {}
    /\ leadtype = "-1"
    /\ pkg_sigh = NullHeader
    /\ sigtag = 0
    /\ pkg_h = NullHeader
    /\ pkg_sig = NullSig
    /\ rc = RPMRC_FAIL
    /\ msg = FALSE
    /\ hdrp = NullHeader
    /\ keyidp = 0
    /\ hdrinfo = NoHdrInfo
    /\ steps = {}
    /\ loglevel = ""

InitRest ==
    /\ region = RegionIdle
    /\ sigv = SigvIdle
    /\ merge = MergeIdle
    /\ InitPkgIdle

(***************************************************************************)
(* stashKeyid (package.c:110-148).                                         *)
(* keyids is the realloc'ed array, a sequence of nkeyids slots; slot i of  *)
(* the C array is keyids[i+1]. A slot realloc added and nobody wrote holds *)
(* Uninit.                                                                 *)
(***************************************************************************)
Uninit == -1

Threads == 1 .. NThreads
\* key ids the sequential callers draw from: 0 ("no id") and one more
\* nonzero id than the ring holds
SeqKeyIds == 0 .. (nkeyids_max + 1)
\* key ids the concurrent callers draw from: no more than the ring holds
ConcKeyIds == 1 .. nkeyids_max

\* the scan of lines 128-134
stashSeen(ks, n, keyid) == \E i \in 1 .. n : i <= Len(ks) /\ ks[i] = keyid

\* lines 136-139: grow the array by one slot while below nkeyids_max
stashGrowN(n) == IF n < nkeyids_max THEN n + 1 ELSE n
stashGrow(ks, n) == IF n < nkeyids_max THEN Append(ks, Uninit) ELSE ks

\* lines 140-141: keyids[nextkeyid] = keyid
stashStore(ks, nxt, keyid) ==
    IF nxt + 1 <= Len(ks) THEN [ks EXCEPT ![nxt + 1] = keyid] ELSE ks

\* mutant: the ring index never wraps
stashAdvance_nowrap(nxt) == nxt + 1

\* lines 142-143
stashAdvance(nxt) == (nxt + 1) % nkeyids_max

\* The whole call, by one caller: [ret, keyids, nkeyids, nextkeyid].
stashKeyid(ks, n, nxt, keyid, lockOK) ==
    IF keyid = 0 \/ ~lockOK
    THEN [ret |-> 0, keyids |-> ks, nkeyids |-> n, nextkeyid |-> nxt]
    ELSE IF stashSeen(ks, n, keyid)
    THEN [ret |-> 1, keyids |-> ks, nkeyids |-> n, nextkeyid |-> nxt]
    ELSE [ret |-> 0,
          keyids |-> stashStore(stashGrow(ks, n), nxt, keyid),
          nkeyids |-> stashGrowN(n),
          nextkeyid |-> stashAdvance(nxt)]

InitStash ==
    /\ keyids = <<>>
    /\ nkeyids = 0
    /\ nextkeyid = 0
    /\ keyid_lock = 0

InitSeq ==
    /\ hist = <<>>
    /\ lockFailed = FALSE

InitThr ==
    /\ tpc = [t \in Threads |-> "idle"]
    /\ tkeyid = [t \in Threads |-> 0]
    /\ tseen = [t \in Threads |-> 0]
    /\ ncalls = 0
    /\ retNew = [k \in ConcKeyIds |-> 0]
    /\ retAll = [k \in ConcKeyIds |-> 0]

(***************************************************************************)
(* SpecSeq: one caller, one call after the other.                          *)
(***************************************************************************)
SeqObserve ==
    /\ Len(hist) < MaxCalls
    /\ \E keyid \in SeqKeyIds, lockOK \in BOOLEAN :
        LET r == stashKeyid(keyids, nkeyids, nextkeyid, keyid, lockOK) IN
        /\ keyids' = r.keyids
        /\ nkeyids' = r.nkeyids
        /\ nextkeyid' = r.nextkeyid
        /\ hist' = Append(hist, <<keyid, r.ret>>)
        /\ lockFailed' = (lockFailed \/ (keyid # 0 /\ ~lockOK))
        /\ UNCHANGED <<keyid_lock, thrVars, restVars>>

NextSeq == SeqObserve

InitSeqSpec == InitStash /\ InitSeq /\ InitThr /\ InitRest

SpecSeq == InitSeqSpec /\ [][NextSeq]_vars

(***************************************************************************)
(* SpecConc: NThreads threads in stashKeyid, one step at a time.           *)
(*   idle -> entry -> (lock) scan -> insert -> unlock -> idle              *)
(***************************************************************************)
\* a thread enters stashKeyid(keyid); line 121 is never taken, keyid # 0
ThrCall(t) ==
    \E keyid \in ConcKeyIds :
        /\ tpc[t] = "idle"
        /\ ncalls < MaxCalls
        /\ ncalls' = ncalls + 1
        /\ tkeyid' = [tkeyid EXCEPT ![t] = keyid]
        /\ tseen' = [tseen EXCEPT ![t] = 0]
        /\ tpc' = [tpc EXCEPT ![t] = "entry"]
        /\ UNCHANGED <<stashVars, seqVars, retNew, retAll, restVars>>

\* mutant: the lock is taken without waiting for it to be free
ThrLock_nowait(t) ==
    /\ tpc[t] = "entry"
    /\ keyid_lock' = t
    /\ tpc' = [tpc EXCEPT ![t] = "scan"]
    /\ UNCHANGED <<keyids, nkeyids, nextkeyid, seqVars, tkeyid, tseen, ncalls,
                   retNew, retAll, restVars>>

\* line 125: pthread_mutex_lock returns 0 once the mutex is free
ThrLock(t) ==
    /\ tpc[t] = "entry"
    /\ keyid_lock = 0
    /\ keyid_lock' = t
    /\ tpc' = [tpc EXCEPT ![t] = "scan"]
    /\ UNCHANGED <<keyids, nkeyids, nextkeyid, seqVars, tkeyid, tseen, ncalls,
                   retNew, retAll, restVars>>

\* lines 125-126: pthread_mutex_lock fails, the call returns 0 at once
ThrLockFail(t) ==
    /\ tpc[t] = "entry"
    /\ lockFailed' = TRUE
    /\ retAll' = [retAll EXCEPT ![tkeyid[t]] = @ + 1]
    /\ retNew' = [retNew EXCEPT ![tkeyid[t]] = @ + 1]
    /\ tpc' = [tpc EXCEPT ![t] = "idle"]
    /\ UNCHANGED <<stashVars, hist, tkeyid, tseen, ncalls, restVars>>

\* lines 128-134
ThrScan(t) ==
    /\ tpc[t] = "scan"
    /\ IF stashSeen(keyids, nkeyids, tkeyid[t])
       THEN /\ tseen' = [tseen EXCEPT ![t] = 1]
            /\ tpc' = [tpc EXCEPT ![t] = "exit"]
       ELSE /\ tseen' = tseen
            /\ tpc' = [tpc EXCEPT ![t] = "insert"]
    /\ UNCHANGED <<stashVars, seqVars, tkeyid, ncalls, retNew, retAll, restVars>>

\* lines 136-143
ThrInsert(t) ==
    /\ tpc[t] = "insert"
    /\ nkeyids' = stashGrowN(nkeyids)
    /\ keyids' = stashStore(stashGrow(keyids, nkeyids), nextkeyid, tkeyid[t])
    /\ nextkeyid' = stashAdvance(nextkeyid)
    /\ tpc' = [tpc EXCEPT ![t] = "exit"]
    /\ UNCHANGED <<keyid_lock, seqVars, tkeyid, tseen, ncalls, retNew, retAll,
                   restVars>>

\* lines 145-147: unlock and return seen
ThrUnlock(t) ==
    /\ tpc[t] = "exit"
    /\ keyid_lock' = IF keyid_lock = t THEN 0 ELSE keyid_lock
    /\ retAll' = [retAll EXCEPT ![tkeyid[t]] = @ + 1]
    /\ retNew' = [retNew EXCEPT ![tkeyid[t]] = @ + (1 - tseen[t])]
    /\ tpc' = [tpc EXCEPT ![t] = "idle"]
    /\ UNCHANGED <<keyids, nkeyids, nextkeyid, seqVars, tkeyid, tseen, ncalls,
                   restVars>>

NextConc ==
    \E t \in Threads :
        \/ ThrCall(t)
        \/ ThrLock(t)
        \/ ThrLockFail(t)
        \/ ThrScan(t)
        \/ ThrInsert(t)
        \/ ThrUnlock(t)

InitConcSpec == InitStash /\ InitSeq /\ InitThr /\ InitRest

SpecConc == InitConcSpec /\ [][NextConc]_vars


(***************************************************************************)
(* Claims about stashKeyid.                                                *)
(***************************************************************************)
\* the key ids of the calls hist[1..k] that returned 0 (the insertions), in order
Misses(k) == SelectSeq(SubSeq(hist, 1, k), LAMBDA e : e[1] # 0 /\ e[2] = 0)

\* the ids a ring of nkeyids_max slots holds after the calls hist[1..k]: the
\* last nkeyids_max insertions
Ring(k) ==
    LET m == Misses(k) IN
    {m[j][1] : j \in {i \in 1 .. Len(m) : i > Len(m) - nkeyids_max}}

DistinctIds == {hist[j][1] : j \in 1 .. Len(hist)} \ {0}

\* C5: called sequentially with the lock always acquired, observe(id) of a
\* nonzero id returns 1 exactly when id is among the last nkeyids_max ids
\* inserted (so, with no more distinct ids than slots, 0 exactly on the first
\* occurrence and 1 on each later one; and 0 again once the ring has
\* overwritten the id); observe(0) returns 0 and leaves the stash as it is.
C5_StashSequential ==
    ~lockFailed =>
        /\ \A k \in 1 .. Len(hist) :
               /\ hist[k][1] = 0 => hist[k][2] = 0
               /\ hist[k][1] # 0 =>
                      (hist[k][2] = 1 <=> hist[k][1] \in Ring(k - 1))
        /\ Cardinality(DistinctIds) <= nkeyids_max =>
               \A k \in 1 .. Len(hist) :
                   hist[k][1] # 0 =>
                       (hist[k][2] = 1 <=>
                            \E j \in 1 .. (k - 1) : hist[j][1] = hist[k][1])
        /\ Len(keyids) = nkeyids
        /\ {keyids[i] : i \in 1 .. nkeyids} = Ring(Len(hist))

\* more ids than slots were observed, and an id observed before is reported
\* new again
C5_Witness ==
    /\ ~lockFailed
    /\ \E j, k \in 1 .. Len(hist) :
           /\ j < k
           /\ hist[j][1] # 0
           /\ hist[j][1] = hist[k][1]
           /\ hist[k][2] = 0
    /\ Cardinality(DistinctIds) > nkeyids_max

\* C6: with the lock never failing and no more distinct ids than slots, for
\* each id exactly one call returns 0 and every other call returns 1; no id is
\* held in two slots, no more than nkeyids_max ids are held, a thread outside
\* the critical section does not hold the mutex, and some thread inside a
\* call can always take a step.
C6_StashConcurrent ==
    ~lockFailed =>
        /\ \A k \in ConcKeyIds :
               /\ retNew[k] <= 1
               /\ retAll[k] >= 1 => retNew[k] = 1
        /\ \A i, j \in 1 .. Len(keyids) : i # j => keyids[i] # keyids[j]
        /\ nkeyids <= nkeyids_max
        /\ Len(keyids) = nkeyids
        /\ \A t \in Threads : tpc[t] \in {"idle", "entry"} => keyid_lock # t
        /\ (\E t \in Threads : tpc[t] # "idle") =>
               \E t \in Threads :
                   ENABLED (ThrLock(t) \/ ThrScan(t) \/ ThrInsert(t) \/ ThrUnlock(t))

\* a thread has inserted an id and still holds the mutex while another thread
\* waits at the lock with the same id, after an earlier call has returned
C6_Witness ==
    /\ ~lockFailed
    /\ \E t1, t2 \in Threads :
           /\ t1 # t2
           /\ tpc[t1] = "entry"
           /\ tpc[t2] = "exit"
           /\ keyid_lock = t2
           /\ tseen[t2] = 0
           /\ tkeyid[t1] = tkeyid[t2]
    /\ \E k \in ConcKeyIds : retAll[k] >= 1


(***************************************************************************)
(* Header blobs.                                                           *)
(* A blob is [il, dl, body]: body is the bytes that follow the two count   *)
(* words, the entry index pe (16 bytes an entry, network byte order) and   *)
(* then the dl bytes of the data segment. Byte k (from 0) of body is       *)
(* body[k+1]; dataStart is byte 16*il.                                     *)
(***************************************************************************)
\* tags, types and sizes of rpmtag.h and header_internal.h, as package.c uses them
RPMTAG_HEADERIMMUTABLE == 63
RPMTAG_NAME == 1000
RPM_INT32_TYPE == 4
RPM_BIN_TYPE == 7
REGION_TAG_TYPE == RPM_BIN_TYPE
\* sizeof(struct entryInfo_s)
REGION_TAG_COUNT == 16

\* entries a blob may hold
MaxIl == 2

\* htonl: the four bytes of a 32-bit word, two's complement
be32(x) ==
    << (x \div 16777216) % 256, (x \div 65536) % 256, (x \div 256) % 256, x % 256 >>

\* ntohl into an int32_t: the word at byte k of body
ntohl(body, k) ==
    (IF body[k + 1] >= 128 THEN body[k + 1] - 256 ELSE body[k + 1]) * 16777216
    + body[k + 2] * 65536 + body[k + 3] * 256 + body[k + 4]

\* ei2h: the entry at byte k of body, in host byte order
ei2h(body, k) ==
    [tag |-> ntohl(body, k), type |-> ntohl(body, k + 4),
     offset |-> ntohl(body, k + 8), count |-> ntohl(body, k + 12)]

entryBytes(e) == be32(e.tag) \o be32(e.type) \o be32(e.offset) \o be32(e.count)

RECURSIVE indexBytes(_)
indexBytes(es) ==
    IF es = <<>> THEN <<>> ELSE entryBytes(Head(es)) \o indexBytes(Tail(es))

\* hdrchkRange(_dl, _off): ((_off) < 0 || (_off) > (_dl)). Where _off is
\* offset + REGION_TAG_COUNT the sum is unsigned (a sizeof): a sum below 0
\* wraps to a value above every dl, and is rejected all the same.
hdrchkRange(dl, off) == off < 0 \/ off > dl

\* mutant: package files are not required to be all region
headerVerifyRegion_inexact(regionTag, exact_size, blob) ==
    LET e0 == ei2h(blob.body, 0)
        tr == ei2h(blob.body, 16 * blob.il + e0.offset)
    IN  IF blob.il < 1 THEN [rc |-> RPMRC_FAIL, ril |-> 0, rdl |-> 0]
        ELSE IF e0.tag # regionTag THEN [rc |-> RPMRC_NOTFOUND, ril |-> 0, rdl |-> 0]
        ELSE IF ~(e0.type = REGION_TAG_TYPE /\ e0.count = REGION_TAG_COUNT)
                \/ hdrchkRange(blob.dl, e0.offset + REGION_TAG_COUNT)
        THEN [rc |-> RPMRC_FAIL, ril |-> 0, rdl |-> 0]
        ELSE IF ~(tr.tag = regionTag /\ tr.type = REGION_TAG_TYPE
                  /\ tr.count = REGION_TAG_COUNT)
        THEN [rc |-> RPMRC_FAIL, ril |-> 0, rdl |-> e0.offset + REGION_TAG_COUNT]
        ELSE [rc |-> IF ((-tr.offset) % 16 # 0)
                        \/ hdrchkRange(blob.il, (-tr.offset) \div 16)
                        \/ hdrchkRange(blob.dl, e0.offset + REGION_TAG_COUNT)
                     THEN RPMRC_FAIL ELSE RPMRC_OK,
              ril |-> (-tr.offset) \div 16,
              rdl |-> e0.offset + REGION_TAG_COUNT]

\* headerVerifyRegion (package.c:236-315): [rc, ril, rdl], the result and the
\* two fields it leaves in the blob (both 0 when it is called).
\* The trailer is read at regionEnd = dataStart + offset, bytes
\* 16*il + offset .. 16*il + offset + 15 of body. The trailer's offset is
\* negated (line 283); ril is offset / sizeof(*pe) and the remainder
\* offset % sizeof(*pe), both unsigned, which for a negative offset are the
\* floor quotient (cut to 32 bits) and the non-negative remainder.
headerVerifyRegion(regionTag, exact_size, blob) ==
    IF blob.il < 1
    THEN [rc |-> RPMRC_FAIL, ril |-> 0, rdl |-> 0]
    ELSE
    LET e0 == ei2h(blob.body, 0) IN
    IF ~(e0.tag = regionTag)
    THEN [rc |-> RPMRC_NOTFOUND, ril |-> 0, rdl |-> 0]
    ELSE IF ~(e0.type = REGION_TAG_TYPE /\ e0.count = REGION_TAG_COUNT)
    THEN [rc |-> RPMRC_FAIL, ril |-> 0, rdl |-> 0]
    ELSE IF hdrchkRange(blob.dl, e0.offset + REGION_TAG_COUNT)
    THEN [rc |-> RPMRC_FAIL, ril |-> 0, rdl |-> 0]
    ELSE
    LET regionEnd == 16 * blob.il + e0.offset
        trailer == ei2h(blob.body, regionEnd)
        rdl == (regionEnd + REGION_TAG_COUNT) - 16 * blob.il
        offset == -trailer.offset
        ril == offset \div 16
    IN
    IF ~(trailer.tag = regionTag /\ trailer.type = REGION_TAG_TYPE
         /\ trailer.count = REGION_TAG_COUNT)
    THEN [rc |-> RPMRC_FAIL, ril |-> 0, rdl |-> rdl]
    ELSE IF (offset % 16 # 0) \/ hdrchkRange(blob.il, ril)
            \/ hdrchkRange(blob.dl, rdl)
    THEN [rc |-> RPMRC_FAIL, ril |-> ril, rdl |-> rdl]
    ELSE IF exact_size /\ ~(blob.il = ril /\ blob.dl = rdl)
    THEN [rc |-> RPMRC_FAIL, ril |-> ril, rdl |-> rdl]
    ELSE [rc |-> RPMRC_OK, ril |-> ril, rdl |-> rdl]

(***************************************************************************)
(* SpecRegion: headerVerifyRegion on the blobs of a bounded family.        *)
(***************************************************************************)
\* entry 0: tag, <<type, count>> and offset (a signed 32-bit integer)
Entry0Tags == {RPMTAG_HEADERIMMUTABLE, RPMTAG_NAME}
Entry0Shapes == {<<RPM_BIN_TYPE, 16>>, <<RPM_INT32_TYPE, 16>>, <<RPM_BIN_TYPE, 1>>}
Entry0Offsets == {-32, -16, -8, 0, 4, 16, 32}
\* sizes of the data segment
DlChoices == {0, 16, 20, 32}
\* a 16-byte record that may pass for a trailer: in the data segment, or as
\* a later entry of the index
TrailerShapes ==
    {<<RPMTAG_HEADERIMMUTABLE, RPM_BIN_TYPE, 16>>,
     <<RPMTAG_NAME, RPM_BIN_TYPE, 16>>,
     <<RPMTAG_HEADERIMMUTABLE, RPM_INT32_TYPE, 1>>}
TrailerOffsets == {-16 * n : n \in 0 .. MaxIl} \cup {-8, 16}
Trailers ==
    {[tag |-> sh[1], type |-> sh[2], offset |-> o, count |-> sh[3]] :
        sh \in TrailerShapes, o \in TrailerOffsets}
\* where in the data segment a trailer is written (none: the data is all zero)
TrailerPlaces == {0, 4, 16}

Zeros(n) == [i \in 1 .. n |-> 0]

\* the data segment: dl zero bytes, with the trailer tr written at byte at
dataBytes(dl, tr, at) ==
    IF at + 16 <= dl
    THEN Zeros(at) \o entryBytes(tr) \o Zeros(dl - at - 16)
    ELSE Zeros(dl)

\* the later entries of the index: plain entries, the last one perhaps
\* shaped as a trailer
LaterEntries(n) ==
    IF n <= 0 THEN {<<>>}
    ELSE {[i \in 1 .. n |->
              IF i = n THEN last
              ELSE [tag |-> RPMTAG_NAME, type |-> RPM_INT32_TYPE,
                    offset |-> 0, count |-> 1]] :
            last \in {[tag |-> RPMTAG_NAME, type |-> RPM_INT32_TYPE,
                       offset |-> 0, count |-> 1],
                      [tag |-> RPMTAG_HEADERIMMUTABLE, type |-> RPM_BIN_TYPE,
                       offset |-> -16 * (n + 1), count |-> 16],
                      [tag |-> RPMTAG_HEADERIMMUTABLE, type |-> RPM_BIN_TYPE,
                       offset |-> -16, count |-> 16]}}

RegionBlobs ==
    {[il |-> 0, dl |-> dl, body |-> Zeros(dl)] : dl \in DlChoices}
    \cup
    {[il |-> 1 + Len(later), dl |-> dl,
      body |-> entryBytes([tag |-> t, type |-> sh[1], offset |-> o, count |-> sh[2]])
               \o indexBytes(later) \o dataBytes(dl, tr, at)] :
        t \in Entry0Tags, sh \in Entry0Shapes, o \in Entry0Offsets,
        later \in UNION {LaterEntries(n) : n \in 0 .. (MaxIl - 1)},
        dl \in DlChoices, tr \in Trailers, at \in TrailerPlaces}

HeaderVerifyRegionCall ==
    /\ region.pc = "idle"
    /\ \E blob \in RegionBlobs, exact_size \in BOOLEAN :
        LET r == headerVerifyRegion(RPMTAG_HEADERIMMUTABLE, exact_size, blob) IN
        /\ region' = [pc |-> "done", blob |-> blob, exact_size |-> exact_size,
                      rc |-> r.rc, ril |-> r.ril, rdl |-> r.rdl]
        /\ UNCHANGED <<stashVars, seqVars, thrVars, sigv, merge, pkgVars>>

NextRegion == HeaderVerifyRegionCall

InitRegionSpec == InitStash /\ InitSeq /\ InitThr /\ InitRest

SpecRegion == InitRegionSpec /\ [][NextRegion]_vars

\* C8: whenever headerVerifyRegion returns OK, the trailer it read lies wholly
\* inside the data segment: 0 <= entry0.offset and entry0.offset + 16 <= dl,
\* hence 16 <= rdl <= dl, and 0 <= ril <= il.
C8_TrailerInsideData ==
    (region.pc = "done" /\ region.rc = RPMRC_OK) =>
        LET e0 == ei2h(region.blob.body, 0) IN
        /\ 0 <= e0.offset
        /\ e0.offset + 16 <= region.blob.dl
        /\ 16 <= region.rdl
        /\ region.rdl <= region.blob.dl
        /\ 0 <= region.ril
        /\ region.ril <= region.blob.il


(***************************************************************************)
(* headerSigVerify (package.c:166-234).                                    *)
(* vsflags is the set of the RPMVSF_ bits that are set. A tag data (td) is *)
(* [tag, type, count, size, offset, idx]: data is dataStart + offset, and  *)
(* idx, which the code does not keep, is the entry the td was made from.   *)
(***************************************************************************)
RPMTAG_DSAHEADER == 267
RPMTAG_RSAHEADER == 268
RPMTAG_SHA1HEADER == 269

RPMVSF_NOSHA1HEADER == "NOSHA1HEADER"
RPMVSF_NODSAHEADER == "NODSAHEADER"
RPMVSF_NORSAHEADER == "NORSAHEADER"
VSFlagSets == SUBSET {RPMVSF_NOSHA1HEADER, RPMVSF_NODSAHEADER, RPMVSF_NORSAHEADER}

\* ei2td (package.c:150-160)
ei2td(info, siglen, i) ==
    [tag |-> info.tag, type |-> info.type, count |-> info.count,
     size |-> siglen, offset |-> info.offset, idx |-> i]

\* mutant: a signature is taken only while nothing was found yet
sigScanStep_first(vsflags, einfo, sigtd, i) ==
    IF einfo.tag \in {RPMTAG_SHA1HEADER, RPMTAG_RSAHEADER, RPMTAG_DSAHEADER}
       /\ sigtd.tag = 0
       /\ ~(einfo.tag = RPMTAG_SHA1HEADER /\ RPMVSF_NOSHA1HEADER \in vsflags)
       /\ ~(einfo.tag = RPMTAG_RSAHEADER /\ RPMVSF_NORSAHEADER \in vsflags)
       /\ ~(einfo.tag = RPMTAG_DSAHEADER /\ RPMVSF_NODSAHEADER \in vsflags)
    THEN ei2td(einfo, IF einfo.tag = RPMTAG_SHA1HEADER THEN 0 ELSE einfo.count, i)
    ELSE sigtd

\* the switch of lines 184-203, at entry i: sigtd after it
sigScanStep(vsflags, einfo, sigtd, i) ==
    CASE einfo.tag = RPMTAG_SHA1HEADER ->
            IF RPMVSF_NOSHA1HEADER \in vsflags THEN sigtd
            ELSE IF sigtd.tag = 0 THEN ei2td(einfo, 0, i)
            ELSE sigtd
      [] einfo.tag = RPMTAG_RSAHEADER ->
            IF RPMVSF_NORSAHEADER \in vsflags THEN sigtd
            ELSE ei2td(einfo, einfo.count, i)
      [] einfo.tag = RPMTAG_DSAHEADER ->
            IF RPMVSF_NODSAHEADER \in vsflags THEN sigtd
            ELSE ei2td(einfo, einfo.count, i)
      [] OTHER -> sigtd

\* the loop of lines 181-204, from entry i
RECURSIVE sigScan(_, _, _, _, _)
sigScan(vsflags, body, i, il, sigtd) ==
    IF i >= il THEN sigtd
    ELSE sigScan(vsflags, body, i + 1, il,
                 sigScanStep(vsflags, ei2h(body, 16 * i), sigtd, i))

\* What the collaborators may answer. rpmSigInfoParse: [rc, hashalgo];
\* rpmVerifySignature: a verdict, which for a digest is OK or FAIL.
SigInfoParseOutcomes ==
    {[rc |-> RPMRC_FAIL, hashalgo |-> 0], [rc |-> RPMRC_OK, hashalgo |-> 0],
     [rc |-> RPMRC_OK, hashalgo |-> 1]}
rpmVerifySignatureOutcomes(tag) ==
    IF tag = RPMTAG_SHA1HEADER THEN {RPMRC_OK, RPMRC_FAIL}
    ELSE {RPMRC_OK, RPMRC_NOKEY, RPMRC_NOTTRUSTED, RPMRC_FAIL}

\* headerSigVerify: [rc, sigtd], given what the collaborators answer
headerSigVerify(vsflags, il, ril, body, parse, verdict) ==
    LET sigtd == sigScan(vsflags, body, ril, il, NoSigtd) IN
    [sigtd |-> sigtd,
     rc |-> IF sigtd.tag = 0 THEN RPMRC_NOTFOUND
            ELSE IF parse.rc # RPMRC_OK THEN RPMRC_FAIL
            ELSE IF parse.hashalgo # 0 THEN verdict
            ELSE RPMRC_FAIL]

(***************************************************************************)
(* SpecSig: headerSigVerify on index tails of every order.                 *)
(***************************************************************************)
\* entries after the region
MaxTail == 3

SigTailTags == {RPMTAG_SHA1HEADER, RPMTAG_RSAHEADER, RPMTAG_DSAHEADER, RPMTAG_NAME}
\* an entry with tag t, its payload at offset off
binEntry(t, off) == [tag |-> t, type |-> RPM_BIN_TYPE, offset |-> off, count |-> 16]
SigTails ==
    UNION {{[i \in 1 .. n |-> binEntry(f[i], 16 * i)] : f \in [1 .. n -> SigTailTags]} :
              n \in 0 .. MaxTail}
\* the entries of the region (ril of them), the region tag first
RegionEntries(ril) ==
    [i \in 1 .. ril |->
        IF i = 1 THEN binEntry(RPMTAG_HEADERIMMUTABLE, 0) ELSE binEntry(RPMTAG_NAME, 0)]

HeaderSigVerifyCall ==
    /\ sigv.pc = "idle"
    /\ \E tail \in SigTails, ril \in 0 .. 1, vsflags \in VSFlagSets,
          parse \in SigInfoParseOutcomes :
        LET pe == RegionEntries(ril) \o tail
            body == indexBytes(pe)
            sigtd == sigScan(vsflags, body, ril, Len(pe), NoSigtd)
        IN  \E verdict \in rpmVerifySignatureOutcomes(sigtd.tag) :
            LET r == headerSigVerify(vsflags, Len(pe), ril, body, parse, verdict) IN
            sigv' = [pc |-> "done", vsflags |-> vsflags, il |-> Len(pe),
                     ril |-> ril, pe |-> pe, sigtd |-> r.sigtd, rc |-> r.rc]
    /\ UNCHANGED <<stashVars, seqVars, thrVars, region, merge, pkgVars>>

NextSig == HeaderSigVerifyCall

InitSigSpec == InitStash /\ InitSeq /\ InitThr /\ InitRest

SpecSig == InitSigSpec /\ [][NextSig]_vars

\* entry i (from 0) of the call's index is a signature, or a digest, that
\* vsflags does not disable
EnabledSig(i) ==
    \/ sigv.pe[i + 1].tag = RPMTAG_RSAHEADER /\ RPMVSF_NORSAHEADER \notin sigv.vsflags
    \/ sigv.pe[i + 1].tag = RPMTAG_DSAHEADER /\ RPMVSF_NODSAHEADER \notin sigv.vsflags
EnabledSha1(i) ==
    sigv.pe[i + 1].tag = RPMTAG_SHA1HEADER /\ RPMVSF_NOSHA1HEADER \notin sigv.vsflags
TailSigs == {i \in sigv.ril .. (sigv.il - 1) : EnabledSig(i)}
TailSha1s == {i \in sigv.ril .. (sigv.il - 1) : EnabledSha1(i)}
MinOf(S) == CHOOSE x \in S : \A y \in S : x <= y
MaxOf(S) == CHOOSE x \in S : \A y \in S : x >= y

\* C4 (as claimed): if the tail [ril .. il) holds an enabled signature entry,
\* the FIRST such entry in index order is selected, whatever SHA1HEADER
\* entries surround it; otherwise the first enabled SHA1HEADER entry;
\* otherwise the result is NOTFOUND.
C4_FirstSignatureSelected ==
    sigv.pc = "done" =>
        IF TailSigs # {}
        THEN sigv.sigtd.idx = MinOf(TailSigs) /\ sigv.rc # RPMRC_NOTFOUND
        ELSE IF TailSha1s # {}
        THEN sigv.sigtd.idx = MinOf(TailSha1s) /\ sigv.rc # RPMRC_NOTFOUND
        ELSE sigv.sigtd.tag = 0 /\ sigv.rc = RPMRC_NOTFOUND

\* C4 (amended): if the tail [ril .. il) holds an enabled signature entry,
\* the LAST such entry in index order is selected, whatever SHA1HEADER
\* entries surround it; otherwise the first enabled SHA1HEADER entry;
\* otherwise the result is NOTFOUND.
C4_LastSignatureSelected ==
    sigv.pc = "done" =>
        IF TailSigs # {}
        THEN /\ sigv.sigtd.idx = MaxOf(TailSigs)
             /\ sigv.sigtd.tag = sigv.pe[MaxOf(TailSigs) + 1].tag
             /\ sigv.rc # RPMRC_NOTFOUND
        ELSE IF TailSha1s # {}
        THEN /\ sigv.sigtd.idx = MinOf(TailSha1s)
             /\ sigv.sigtd.tag = RPMTAG_SHA1HEADER
             /\ sigv.rc # RPMRC_NOTFOUND
        ELSE sigv.sigtd.tag = 0 /\ sigv.rc = RPMRC_NOTFOUND

\* a tail with two enabled signature entries of different tags and an enabled
\* SHA1HEADER entry after them: the second signature is the one selected
C4_Witness ==
    /\ sigv.pc = "done"
    /\ \E i, j, k \in TailSigs \cup TailSha1s :
           /\ i < j /\ j < k
           /\ i \in TailSigs /\ j \in TailSigs /\ k \in TailSha1s
           /\ sigv.pe[i + 1].tag # sigv.pe[j + 1].tag
           /\ sigv.sigtd.idx = j


(***************************************************************************)
(* headerMergeLegacySigs (package.c:29-97).                                *)
(* A header is the sequence of its entries, each a tag data                *)
(* [tag, type, count, data]; data is what the entry holds, 0 for NULL.     *)
(***************************************************************************)
\* tag ranges and tags of rpmtag.h
RPMTAG_HEADERSIGNATURES == 62
HEADER_SIGBASE == 256
HEADER_TAGBASE == 1000
RPMTAG_SIGSIZE == 257
RPMTAG_SIGPGP == 259
RPMTAG_SIGMD5 == 261
RPMTAG_SIGGPG == 262
RPMTAG_SIGPGP5 == 263
RPMTAG_ARCHIVESIZE == 1046
RPMSIGTAG_SIZE == 1000
RPMSIGTAG_PGP == 1002
RPMSIGTAG_MD5 == 1004
RPMSIGTAG_GPG == 1005
RPMSIGTAG_PGP5 == 1006
RPMSIGTAG_PAYLOADSIZE == 1007
RPMSIGTAG_SHA1 == RPMTAG_SHA1HEADER
RPMSIGTAG_DSA == RPMTAG_DSAHEADER
RPMSIGTAG_RSA == RPMTAG_RSAHEADER
\* tag types
RPM_NULL_TYPE == 0
RPM_CHAR_TYPE == 1
RPM_INT8_TYPE == 2
RPM_INT16_TYPE == 3
RPM_INT64_TYPE == 5
RPM_STRING_TYPE == 6
RPM_STRING_ARRAY_TYPE == 8
RPM_I18NSTRING_TYPE == 9

\* hdrchkType and hdrchkData of header_internal.h: a type outside
\* RPM_MIN_TYPE .. RPM_MAX_TYPE, a size with bits above HEADER_DATA_MAX
hdrchkType(type) == type < RPM_NULL_TYPE \/ type > RPM_I18NSTRING_TYPE
hdrchkData(nbytes) == nbytes < 0 \/ nbytes > 268435455

\* headerIsEntry and headerPut (HEADERPUT_DEFAULT) of header.c
headerIsEntry(h, tag) == \E i \in 1 .. Len(h) : h[i].tag = tag
headerPut(h, td) == Append(h, td)

\* lines 37-64: the tag an entry of the signature header is merged under,
\* 0 when the entry is passed over
legacyTag(tag) ==
    CASE tag = RPMSIGTAG_SIZE -> RPMTAG_SIGSIZE
      [] tag = RPMSIGTAG_PGP -> RPMTAG_SIGPGP
      [] tag = RPMSIGTAG_MD5 -> RPMTAG_SIGMD5
      [] tag = RPMSIGTAG_GPG -> RPMTAG_SIGGPG
      [] tag = RPMSIGTAG_PGP5 -> RPMTAG_SIGPGP5
      [] tag = RPMSIGTAG_PAYLOADSIZE -> RPMTAG_ARCHIVESIZE
      [] OTHER -> IF ~(tag >= HEADER_SIGBASE /\ tag < HEADER_TAGBASE) THEN 0 ELSE tag

\* lines 71-92: the (type, count) rules; TRUE when the entry is passed over
mergeSkipsType(type, count) ==
    CASE type = RPM_NULL_TYPE -> TRUE
      [] type \in {RPM_CHAR_TYPE, RPM_INT8_TYPE, RPM_INT16_TYPE, RPM_INT32_TYPE,
                   RPM_INT64_TYPE} -> count # 1
      [] type \in {RPM_STRING_TYPE, RPM_BIN_TYPE} -> count >= 16 * 1024
      [] type \in {RPM_STRING_ARRAY_TYPE, RPM_I18NSTRING_TYPE} -> TRUE
      [] OTHER -> FALSE

\* mutant: the entry is put whether or not the header holds the tag
mergeStep_always(h, td) ==
    IF legacyTag(td.tag) = 0 \/ td.data = 0 \/ hdrchkType(td.type)
       \/ td.count < 0 \/ hdrchkData(td.count) \/ mergeSkipsType(td.type, td.count)
    THEN h
    ELSE headerPut(h, [td EXCEPT !.tag = legacyTag(td.tag)])

\* one pass of the loop of lines 35-95: h after the entry td of sigh
mergeStep(h, td) ==
    IF legacyTag(td.tag) = 0 THEN h
    ELSE IF td.data = 0 THEN h
    ELSE IF headerIsEntry(h, legacyTag(td.tag)) THEN h
    ELSE IF hdrchkType(td.type) THEN h
    ELSE IF td.count < 0 \/ hdrchkData(td.count) THEN h
    ELSE IF mergeSkipsType(td.type, td.count) THEN h
    ELSE headerPut(h, [td EXCEPT !.tag = legacyTag(td.tag)])

RECURSIVE headerMergeLegacySigs(_, _)
headerMergeLegacySigs(h, sigh) ==
    IF sigh = <<>> THEN h
    ELSE headerMergeLegacySigs(mergeStep(h, Head(sigh)), Tail(sigh))

(***************************************************************************)
(* SpecMerge: the merge run twice on a bounded family of headers.          *)
(***************************************************************************)
\* entries of the signature header
MaxSigh == 2

MergeTags ==
    {RPMTAG_HEADERSIGNATURES, RPMSIGTAG_SIZE, RPMTAG_SIGSIZE,
     RPMSIGTAG_PAYLOADSIZE, RPMTAG_ARCHIVESIZE}
\* <<type, count, data is NULL>>
MergeShapes ==
    {<<RPM_INT32_TYPE, 1, FALSE>>, <<RPM_INT32_TYPE, 2, FALSE>>,
     <<RPM_BIN_TYPE, 16 * 1024, FALSE>>, <<RPM_STRING_ARRAY_TYPE, 1, FALSE>>,
     <<RPM_INT32_TYPE, 1, TRUE>>}
\* signature headers: the entry at place i holds the data i
MergeSighs ==
    UNION {{[i \in 1 .. n |->
                [tag |-> f[i][1], type |-> f[i][2][1], count |-> f[i][2][2],
                 data |-> IF f[i][2][3] THEN 0 ELSE i]] :
              f \in [1 .. n -> MergeTags \X MergeShapes]} : n \in 0 .. MaxSigh}
\* metadata headers before the merge: the data are 101 and 102
MergeHeaders ==
    LET a == [tag |-> RPMTAG_SIGSIZE, type |-> RPM_INT32_TYPE, count |-> 1, data |-> 101]
        b == [tag |-> RPMTAG_ARCHIVESIZE, type |-> RPM_INT32_TYPE, count |-> 1, data |-> 102]
    IN  {<<>>, <<a>>, <<b>>, <<a, b>>}

MergeOnce ==
    /\ merge.pc = "idle"
    /\ \E h \in MergeHeaders, sigh \in MergeSighs :
           merge' = [pc |-> "once", sigh |-> sigh, h0 |-> h,
                     h1 |-> headerMergeLegacySigs(h, sigh), h2 |-> <<>>]
    /\ UNCHANGED <<stashVars, seqVars, thrVars, region, sigv, pkgVars>>

MergeTwice ==
    /\ merge.pc = "once"
    /\ merge' = [merge EXCEPT !.pc = "twice",
                              !.h2 = headerMergeLegacySigs(merge.h1, merge.sigh)]
    /\ UNCHANGED <<stashVars, seqVars, thrVars, region, sigv, pkgVars>>

NextMerge == MergeOnce \/ MergeTwice

InitMergeSpec == InitStash /\ InitSeq /\ InitThr /\ InitRest

SpecMerge == InitMergeSpec /\ [][NextMerge]_vars

\* C7: the merge run twice leaves the metadata header the first run left; and
\* a tag the header held before the merge keeps its entry, and gets no second
\* one.
C7_MergeIdempotent ==
    /\ merge.pc = "twice" => merge.h2 = merge.h1
    /\ merge.pc \in {"once", "twice"} =>
           /\ Len(merge.h1) >= Len(merge.h0)
           /\ \A i \in 1 .. Len(merge.h0) : merge.h1[i] = merge.h0[i]
           /\ \A j \in (Len(merge.h0) + 1) .. Len(merge.h1) :
                  ~headerIsEntry(merge.h0, merge.h1[j].tag)

\* the merge has run twice on a signature header that holds the legacy size
\* tag and its modern counterpart, and the first run added an entry
C7_Witness ==
    /\ merge.pc = "twice"
    /\ headerIsEntry(merge.sigh, RPMSIGTAG_SIZE)
    /\ headerIsEntry(merge.sigh, RPMTAG_SIGSIZE)
    /\ Len(merge.h1) > Len(merge.h0)


(***************************************************************************)
(* rpmpkgReadHeader, headerVerify (package.c:317-455).                     *)
(***************************************************************************)
RPMTAG_OLDFILENAMES == 1027
RPMTAG_SOURCERPM == 1044
RPMTAG_SOURCEPACKAGE == 1106
RPMTAG_BASENAMES == 1117

\* pvlen of a blob, and the uc rpmpkgReadHeader computes (lines 414-415)
pvlen(blob) == 8 + 16 * blob.il + blob.dl

\* hdrblobInit of header.c: the blob's fields are set (ril = rdl = 0), its
\* size is compared with uc and the region is located; only FAIL of
\* headerVerifyRegion fails it
hdrblobInit(blob, uc, regionTag, exact_size) ==
    LET r == headerVerifyRegion(regionTag, exact_size, blob) IN
    IF uc # 0 /\ pvlen(blob) # uc
    THEN [rc |-> RPMRC_FAIL, regionrc |-> "", ril |-> 0, rdl |-> 0]
    ELSE [rc |-> IF r.rc = RPMRC_FAIL THEN RPMRC_FAIL ELSE RPMRC_OK,
          regionrc |-> r.rc, ril |-> r.ril, rdl |-> r.rdl]

\* headerVerify (package.c:317-352): [rc, buf, sigVerify, sigrc]; buf says
\* whether a message was written, sigVerify whether headerSigVerify was
\* called and sigrc what it returned. infoRC is what headerVerifyInfo
\* returns, parse and verdict what the collaborators of headerSigVerify do.
headerVerify(flags, blob, uc, ril, rdl, infoRC, parse, verdict) ==
    IF uc > 0 /\ pvlen(blob) # uc
    THEN [rc |-> RPMRC_FAIL, buf |-> TRUE, sigVerify |-> FALSE, sigrc |-> ""]
    ELSE
    LET called == infoRC = RPMRC_OK /\ blob.il > ril
        sv == headerSigVerify(flags, blob.il, ril, blob.body, parse, verdict)
        rc2 == IF called THEN sv.rc ELSE infoRC
        buf2 == (infoRC # RPMRC_OK) \/ (called /\ sv.sigtd.tag # 0)
    IN  IF rc2 = RPMRC_NOTFOUND /\ ~buf2
        THEN [rc |-> RPMRC_OK, buf |-> TRUE, sigVerify |-> called,
              sigrc |-> IF called THEN sv.rc ELSE ""]
        ELSE [rc |-> rc2, buf |-> buf2, sigVerify |-> called,
              sigrc |-> IF called THEN sv.rc ELSE ""]

\* headerImport of header.c: the header of the blob's entries; the entry at
\* place i holds the data 200 + i
headerImport(blob) ==
    [null |-> FALSE,
     ents |-> [i \in 1 .. blob.il |->
                  LET e == ei2h(blob.body, 16 * (i - 1)) IN
                  [tag |-> e.tag, type |-> e.type, count |-> e.count,
                   data |-> 200 + i]]]

\* rpmpkgReadHeader (package.c:372-455): [rc, h, msg, info]. h is what *hdrp
\* is left as. rd tells how the reads and the checks of lines 393-422 end.
ReadFailures == {"short lead-in", "bad magic", "bad il", "bad dl", "short blob"}
rpmpkgReadHeader(flags, rd, blob, infoRC, parse, verdict, importOK) ==
    IF rd \in ReadFailures
    THEN [rc |-> RPMRC_FAIL, h |-> NullHeader, msg |-> TRUE, info |-> NoHdrInfo]
    ELSE
    LET uc == 8 + 16 * blob.il + blob.dl
        b == hdrblobInit(blob, uc, RPMTAG_HEADERIMMUTABLE, TRUE)
        v == headerVerify(flags, blob, uc, b.ril, b.rdl, infoRC, parse, verdict)
        info == [called |-> TRUE, il |-> blob.il, dl |-> blob.dl,
                 ril |-> b.ril, rdl |-> b.rdl, regionrc |-> b.regionrc,
                 sigVerify |-> FALSE, sigrc |-> "", rc |-> RPMRC_FAIL]
    IN
    IF b.rc # RPMRC_OK
    THEN [rc |-> RPMRC_FAIL, h |-> NullHeader, msg |-> TRUE, info |-> info]
    ELSE IF v.rc # RPMRC_OK
    THEN [rc |-> v.rc, h |-> NullHeader, msg |-> v.buf,
          info |-> [info EXCEPT !.sigVerify = v.sigVerify, !.sigrc = v.sigrc,
                                !.rc = v.rc]]
    ELSE IF ~importOK
    THEN [rc |-> RPMRC_FAIL, h |-> NullHeader, msg |-> TRUE,
          info |-> [info EXCEPT !.sigVerify = v.sigVerify, !.sigrc = v.sigrc]]
    ELSE [rc |-> RPMRC_OK, h |-> headerImport(blob), msg |-> v.buf,
          info |-> [info EXCEPT !.sigVerify = v.sigVerify, !.sigrc = v.sigrc,
                                !.rc = RPMRC_OK]]

(***************************************************************************)
(* rpmpkgRead (package.c:469-601).                                         *)
(***************************************************************************)
RPMLEAD_BINARY == "BINARY"
RPMLEAD_SOURCE == "SOURCE"

\* mutant: RSA is tried before DSA
selectSigtag_rsafirst(flags, hdr) ==
    IF RPMVSF_NORSAHEADER \notin flags /\ headerIsEntry(hdr.ents, RPMSIGTAG_RSA)
    THEN RPMSIGTAG_RSA
    ELSE IF RPMVSF_NODSAHEADER \notin flags /\ headerIsEntry(hdr.ents, RPMSIGTAG_DSA)
    THEN RPMSIGTAG_DSA
    ELSE IF RPMVSF_NOSHA1HEADER \notin flags /\ headerIsEntry(hdr.ents, RPMSIGTAG_SHA1)
    THEN RPMSIGTAG_SHA1
    ELSE 0

\* _chk (lines 502-503), with sigtag as it is when the macro is used
chk(tag0, flags, hdr, mask, tag) ==
    tag0 = 0 /\ ~(mask \in flags) /\ headerIsEntry(hdr.ents, tag)

\* lines 510-517
selectSigtag(flags, hdr) ==
    IF chk(0, flags, hdr, RPMVSF_NODSAHEADER, RPMSIGTAG_DSA) THEN RPMSIGTAG_DSA
    ELSE IF chk(0, flags, hdr, RPMVSF_NORSAHEADER, RPMSIGTAG_RSA) THEN RPMSIGTAG_RSA
    ELSE IF chk(0, flags, hdr, RPMVSF_NOSHA1HEADER, RPMSIGTAG_SHA1) THEN RPMSIGTAG_SHA1
    ELSE 0

\* mutant: no tag to check is reported as NOTFOUND
pkgVerify_notfound(tag, getOK, parse, verdict) ==
    IF tag = 0 THEN RPMRC_NOTFOUND
    ELSE IF ~getOK THEN RPMRC_FAIL
    ELSE IF parse.rc = RPMRC_OK THEN verdict
    ELSE RPMRC_FAIL

\* lines 528-558: rc after the package-level check. getOK is what headerGet
\* returns for sigtag, parse and verdict what rpmSigInfoParse and
\* rpmVerifySignature do.
pkgVerify(tag, getOK, parse, verdict) ==
    IF tag = 0 THEN RPMRC_OK
    ELSE IF ~getOK THEN RPMRC_FAIL
    ELSE IF parse.rc = RPMRC_OK THEN verdict
    ELSE RPMRC_FAIL

\* getKeyid (package.c:99-102); signid stands for pgpGrab(signid+4, 4)
getKeyid(sigp) == IF ~sigp.null THEN sigp.signid ELSE 0

\* headerIsSource of header.c
headerIsSource(hdr) == ~headerIsEntry(hdr.ents, RPMTAG_SOURCERPM)

\* headerConvert of headerutil.c, on the tags of the model: the v3 retrofit
\* adds the immutable region tag, the file list compression replaces
\* OLDFILENAMES by BASENAMES
headerConvert(ents, op) ==
    IF op = "HEADERCONV_RETROFIT_V3"
    THEN <<[tag |-> RPMTAG_HEADERIMMUTABLE, type |-> RPM_BIN_TYPE, count |-> 16,
            data |-> 300]>> \o ents
    ELSE SelectSeq(ents, LAMBDA e : e.tag # RPMTAG_OLDFILENAMES)
         \o <<[tag |-> RPMTAG_BASENAMES, type |-> RPM_STRING_ARRAY_TYPE,
               count |-> 1, data |-> 301]>>

\* mutant: the header is handed out whatever rc is
exitGuard_anyrc(r, hdr, hdrpGiven) == ~hdr.null /\ hdrpGiven

\* line 561
exitGuard(r, hdr, hdrpGiven) == r # RPMRC_FAIL /\ ~hdr.null /\ hdrpGiven

\* lines 562-588: the retrofits and the merge, [ents, steps]
retrofit1(ents, lt) ==
    IF lt = RPMLEAD_SOURCE /\ ~headerIsEntry(ents, RPMTAG_SOURCERPM)
       /\ ~headerIsEntry(ents, RPMTAG_SOURCEPACKAGE)
    THEN Append(ents, [tag |-> RPMTAG_SOURCEPACKAGE, type |-> RPM_INT32_TYPE,
                       count |-> 1, data |-> 1])
    ELSE ents
retrofit2(ents) ==
    IF ~headerIsEntry(ents, RPMTAG_SOURCEPACKAGE)
       /\ ~headerIsEntry(ents, RPMTAG_SOURCERPM)
    THEN Append(ents, [tag |-> RPMTAG_SOURCERPM, type |-> RPM_STRING_TYPE,
                       count |-> 1, data |-> 302])
    ELSE ents
retrofit3(ents) ==
    IF ~headerIsEntry(ents, RPMTAG_HEADERIMMUTABLE)
    THEN headerConvert(ents, "HEADERCONV_RETROFIT_V3")
    ELSE IF headerIsEntry(ents, RPMTAG_OLDFILENAMES)
    THEN headerConvert(ents, "HEADERCONV_COMPRESSFILELIST")
    ELSE ents
pkgExitHeader(hdr, sighdr, lt) ==
    [null |-> FALSE,
     ents |-> headerMergeLegacySigs(retrofit3(retrofit2(retrofit1(hdr.ents, lt))),
                                    sighdr.ents)]
pkgExitSteps(hdr, lt) ==
    (IF retrofit1(hdr.ents, lt) # hdr.ents THEN {"SOURCEPACKAGE"} ELSE {})
    \cup (IF retrofit2(retrofit1(hdr.ents, lt)) # retrofit1(hdr.ents, lt)
          THEN {"SOURCERPM"} ELSE {})
    \cup (IF ~headerIsEntry(retrofit2(retrofit1(hdr.ents, lt)), RPMTAG_HEADERIMMUTABLE)
          THEN {"RETROFIT_V3"}
          ELSE IF headerIsEntry(retrofit2(retrofit1(hdr.ents, lt)), RPMTAG_OLDFILENAMES)
          THEN {"COMPRESSFILELIST"} ELSE {})
    \cup {"MERGE", "LINK", "KEYID"}

(***************************************************************************)
(* Spec: rpmReadPackageFile on one package file after the other.           *)
(***************************************************************************)
\* entries of the metadata header after entry 0
MaxPkgLater == 1

PkgKeyIds == {1}
PkgLaterTags ==
    {RPMTAG_SOURCERPM, RPMTAG_OLDFILENAMES, RPMTAG_RSAHEADER, RPMTAG_SHA1HEADER}
PkgLaters ==
    UNION {{[i \in 1 .. n |-> binEntry(f[i], 0)] : f \in [1 .. n -> PkgLaterTags]} :
              n \in 0 .. MaxPkgLater}
PkgEntry0s ==
    {binEntry(RPMTAG_HEADERIMMUTABLE, 0), binEntry(RPMTAG_HEADERIMMUTABLE, -16),
     [tag |-> RPMTAG_NAME, type |-> RPM_STRING_TYPE, offset |-> 0, count |-> 1]}
\* metadata blobs: with and without a region, the region all of the header
\* or a part of it, the trailer in the data or (offset -16) in the index
PkgBlobs ==
    {[il |-> 1 + Len(later), dl |-> dl,
      body |-> entryBytes(e0) \o indexBytes(later)
               \o dataBytes(dl, binEntry(RPMTAG_HEADERIMMUTABLE, -16 * n), 0)] :
        e0 \in PkgEntry0s, later \in PkgLaters, dl \in {0, 16},
        n \in 1 .. (MaxPkgLater + 1)}
\* signature headers: any of the DSA, RSA and SHA1 tags
PkgSighs ==
    {[null |-> FALSE,
      ents |-> SelectSeq(<<[tag |-> RPMSIGTAG_DSA, type |-> RPM_BIN_TYPE,
                            count |-> 16, data |-> 401],
                           [tag |-> RPMSIGTAG_RSA, type |-> RPM_BIN_TYPE,
                            count |-> 16, data |-> 402],
                           [tag |-> RPMSIGTAG_SHA1, type |-> RPM_STRING_TYPE,
                            count |-> 1, data |-> 403]>>,
                         LAMBDA e : e.tag \in present)] :
        present \in SUBSET {RPMSIGTAG_DSA, RPMSIGTAG_RSA, RPMSIGTAG_SHA1}}

\* a pointer the caller left in *hdrp
StaleHeader == [null |-> FALSE, ents |-> <<>>]

InitPkg ==
    /\ pc = "start"
    /\ ts_vsflags \in VSFlagSets
    /\ leadtype = "-1"
    /\ pkg_sigh = NullHeader
    /\ sigtag = 0
    /\ pkg_h = NullHeader
    /\ pkg_sig = NullSig
    /\ rc = RPMRC_FAIL
    /\ msg = FALSE
    /\ hdrp = StaleHeader
    /\ keyidp = 0
    /\ hdrinfo = NoHdrInfo
    /\ steps = {}
    /\ loglevel = ""

\* lines 483-493
LeadRead ==
    /\ pc = "start"
    /\ hdrp' = NullHeader
    /\ \E r \in {RPMRC_OK, RPMRC_NOTFOUND, RPMRC_FAIL},
          lt \in {RPMLEAD_BINARY, RPMLEAD_SOURCE} :
           /\ rc' = r
           /\ leadtype' = IF r = RPMRC_OK THEN lt ELSE leadtype
           /\ msg' = (r = RPMRC_FAIL)
           /\ pc' = IF r = RPMRC_OK THEN "sig" ELSE "exit"
    /\ UNCHANGED <<ts_vsflags, pkg_sigh, sigtag, pkg_h, pkg_sig, keyidp, hdrinfo,
                   steps, loglevel>>
    /\ UNCHANGED <<stashVars, seqVars, thrVars, region, sigv, merge>>

\* lines 495-500
ReadSignature ==
    /\ pc = "sig"
    /\ \/ /\ rc' = RPMRC_FAIL
          /\ msg' = TRUE
          /\ pc' = "exit"
          /\ UNCHANGED pkg_sigh
       \/ \E s \in PkgSighs :
           /\ rc' = RPMRC_OK
           /\ msg' = msg
           /\ pkg_sigh' = s
           /\ pc' = "select"
    /\ UNCHANGED <<ts_vsflags, leadtype, sigtag, pkg_h, pkg_sig, hdrp, keyidp,
                   hdrinfo, steps, loglevel>>
    /\ UNCHANGED <<stashVars, seqVars, thrVars, region, sigv, merge>>

\* lines 502-517
SelectSigtag ==
    /\ pc = "select"
    /\ sigtag' = selectSigtag(ts_vsflags, pkg_sigh)
    /\ pc' = "hdr"
    /\ UNCHANGED <<ts_vsflags, leadtype, pkg_sigh, pkg_h, pkg_sig, rc, msg, hdrp,
                   keyidp, hdrinfo, steps, loglevel>>
    /\ UNCHANGED <<stashVars, seqVars, thrVars, region, sigv, merge>>

\* the tag headerSigVerify would find in the blob, 0 for none
blobSigTag(flags, blob) ==
    LET b == hdrblobInit(blob, pvlen(blob), RPMTAG_HEADERIMMUTABLE, TRUE) IN
    IF b.rc = RPMRC_OK /\ blob.il > b.ril
    THEN sigScan(flags, blob.body, b.ril, blob.il, NoSigtd).tag
    ELSE 0

\* lines 519-526
ReadHeader ==
    /\ pc = "hdr"
    /\ \E rd \in ReadFailures \cup {"ok"} :
       \E blob \in IF rd = "ok" THEN PkgBlobs ELSE {NoBlob} :
       \E infoRC \in IF rd = "ok" THEN {RPMRC_OK, RPMRC_FAIL} ELSE {RPMRC_FAIL} :
       \E parse \in IF infoRC = RPMRC_OK /\ blobSigTag(ts_vsflags, blob) # 0
                    THEN SigInfoParseOutcomes ELSE {[rc |-> RPMRC_FAIL, hashalgo |-> 0]} :
       \E verdict \in IF parse.rc = RPMRC_OK /\ parse.hashalgo # 0
                      THEN rpmVerifySignatureOutcomes(blobSigTag(ts_vsflags, blob))
                      ELSE {RPMRC_FAIL} :
       \E importOK \in BOOLEAN :
           \E r \in {rpmpkgReadHeader(ts_vsflags, rd, blob, infoRC, parse, verdict,
                                     importOK)} :
               /\ rc' = r.rc
               /\ pkg_h' = r.h
               /\ msg' = r.msg
               /\ hdrinfo' = r.info
               /\ pc' = IF r.rc # RPMRC_OK \/ r.h.null THEN "exit" ELSE "check"
    /\ UNCHANGED <<ts_vsflags, leadtype, pkg_sigh, sigtag, pkg_sig, hdrp, keyidp,
                   steps, loglevel>>
    /\ UNCHANGED <<stashVars, seqVars, thrVars, region, sigv, merge>>

\* lines 528-558
VerifyPackage ==
    /\ pc = "check"
    /\ \E getOK \in BOOLEAN, parse \in SigInfoParseOutcomes,
          verdict \in rpmVerifySignatureOutcomes(sigtag), signid \in PkgKeyIds :
           /\ rc' = pkgVerify(sigtag, getOK, parse, verdict)
           /\ msg' = IF sigtag = 0 THEN msg ELSE getOK
           /\ pkg_sig' = IF sigtag # 0 /\ getOK /\ parse.rc = RPMRC_OK
                            /\ sigtag # RPMSIGTAG_SHA1
                         THEN [null |-> FALSE, signid |-> signid]
                         ELSE NullSig
    /\ pc' = "exit"
    /\ UNCHANGED <<ts_vsflags, leadtype, pkg_sigh, sigtag, pkg_h, hdrp, keyidp,
                   hdrinfo, steps, loglevel>>
    /\ UNCHANGED <<stashVars, seqVars, thrVars, region, sigv, merge>>

\* lines 560-600
Exit ==
    /\ pc = "exit"
    /\ IF exitGuard(rc, pkg_h, TRUE)
       THEN /\ hdrp' = pkgExitHeader(pkg_h, pkg_sigh, leadtype)
            /\ steps' = pkgExitSteps(pkg_h, leadtype)
            /\ keyidp' = getKeyid(pkg_sig)
       ELSE UNCHANGED <<hdrp, steps, keyidp>>
    /\ pkg_h' = NullHeader
    /\ pkg_sigh' = NullHeader
    /\ pkg_sig' = NullSig
    /\ pc' = "returned"
    /\ UNCHANGED <<ts_vsflags, leadtype, sigtag, rc, msg, hdrinfo, loglevel>>
    /\ UNCHANGED <<stashVars, seqVars, thrVars, region, sigv, merge>>

\* rpmReadPackageFile, lines 616-639
LogResult ==
    /\ pc = "returned"
    /\ IF rc \in {RPMRC_NOTTRUSTED, RPMRC_NOKEY}
       THEN \E lockOK \in BOOLEAN :
            LET r == stashKeyid(keyids, nkeyids, nextkeyid, keyidp, lockOK) IN
            /\ keyids' = r.keyids
            /\ nkeyids' = r.nkeyids
            /\ nextkeyid' = r.nextkeyid
            /\ loglevel' = IF r.ret # 0 THEN "RPMLOG_DEBUG" ELSE "RPMLOG_WARNING"
       ELSE /\ UNCHANGED <<keyids, nkeyids, nextkeyid>>
            /\ loglevel' = CASE rc = RPMRC_OK -> "RPMLOG_DEBUG"
                             [] rc = RPMRC_NOTFOUND ->
                                    IF msg THEN "RPMLOG_WARNING" ELSE ""
                             [] OTHER -> "RPMLOG_ERR"
    /\ pc' = "done"
    /\ UNCHANGED <<ts_vsflags, leadtype, pkg_sigh, sigtag, pkg_h, pkg_sig, rc, msg,
                   hdrp, keyidp, hdrinfo, steps>>
    /\ UNCHANGED <<keyid_lock, seqVars, thrVars, region, sigv, merge>>

\* the next call of rpmReadPackageFile: keyid = 0, new locals
NextFile ==
    /\ pc = "done"
    /\ pc' = "start"
    /\ ts_vsflags' \in VSFlagSets
    /\ leadtype' = "-1"
    /\ pkg_sigh' = NullHeader
    /\ sigtag' = 0
    /\ pkg_h' = NullHeader
    /\ pkg_sig' = NullSig
    /\ rc' = RPMRC_FAIL
    /\ msg' = FALSE
    /\ hdrp' = StaleHeader
    /\ keyidp' = 0
    /\ hdrinfo' = NoHdrInfo
    /\ steps' = {}
    /\ loglevel' = ""
    /\ UNCHANGED <<stashVars, seqVars, thrVars, region, sigv, merge>>

Next ==
    \/ LeadRead
    \/ ReadSignature
    \/ SelectSigtag
    \/ ReadHeader
    \/ VerifyPackage
    \/ Exit
    \/ LogResult
    \/ NextFile

Init ==
    /\ InitStash /\ InitSeq /\ InitThr
    /\ region = RegionIdle /\ sigv = SigvIdle /\ merge = MergeIdle
    /\ InitPkg

Spec == Init /\ [][Next]_vars

(***************************************************************************)
(* Claims about rpmpkgRead and rpmReadPackageFile, checked under Spec.     *)
(***************************************************************************)
\* the signature header that was read holds tag / holds it and the flags do
\* not disable it
SigPresent(tag) ==
    \E i \in 1 .. Len(pkg_sigh.ents) : pkg_sigh.ents[i].tag = tag
SigUsable(tag, mask) == mask \notin ts_vsflags /\ SigPresent(tag)
UsableDSA == SigUsable(RPMSIGTAG_DSA, RPMVSF_NODSAHEADER)
UsableRSA == SigUsable(RPMSIGTAG_RSA, RPMVSF_NORSAHEADER)
UsableSHA1 == SigUsable(RPMSIGTAG_SHA1, RPMVSF_NOSHA1HEADER)

\* rpmpkgRead has returned
Returned == pc \in {"returned", "done"}

\* C1: once rpmpkgRead has selected, sigtag is decided by which of the DSA,
\* RSA and SHA1 tags the signature header holds and by vsflags alone: DSA if
\* present and not disabled, else RSA if present and not disabled, else SHA1
\* if present and not disabled, else 0; an absent or disabled tag is never
\* chosen.
C1_SelectionPriority ==
    pc \in {"hdr", "check"} =>
        /\ sigtag \in {0, RPMSIGTAG_DSA, RPMSIGTAG_RSA, RPMSIGTAG_SHA1}
        /\ (sigtag = RPMSIGTAG_DSA) <=> UsableDSA
        /\ (sigtag = RPMSIGTAG_RSA) <=> (~UsableDSA /\ UsableRSA)
        /\ (sigtag = RPMSIGTAG_SHA1) <=> (~UsableDSA /\ ~UsableRSA /\ UsableSHA1)
        /\ (sigtag = 0) <=> (~UsableDSA /\ ~UsableRSA /\ ~UsableSHA1)

\* the selection has run on a signature header with all three tags, DSA
\* disabled, and RSA was chosen
C1_Witness ==
    /\ pc = "hdr"
    /\ SigPresent(RPMSIGTAG_DSA) /\ SigPresent(RPMSIGTAG_RSA)
    /\ SigPresent(RPMSIGTAG_SHA1)
    /\ ts_vsflags = {RPMVSF_NODSAHEADER}
    /\ sigtag = RPMSIGTAG_RSA

\* C2: whenever rpmpkgRead has returned NOKEY or NOTTRUSTED, the metadata
\* header was handed to the caller and the key id of the signer was written
\* to *keyidp, also when the verdict is the one of headerSigVerify within
\* rpmpkgReadHeader.
C2_NoKeyHeaderReturned ==
    (Returned /\ rc \in {RPMRC_NOKEY, RPMRC_NOTTRUSTED}) =>
        /\ ~hdrp.null
        /\ "KEYID" \in steps
        /\ keyidp \in PkgKeyIds

\* C3 as claimed: lead and both headers read and no enabled signature or
\* digest tag in the signature header, then rpmpkgRead returns NOTFOUND with
\* the metadata header handed out.
C3_NoSignatureNotFound ==
    (Returned /\ hdrinfo.rc = RPMRC_OK /\ sigtag = 0) =>
        (rc = RPMRC_NOTFOUND /\ ~hdrp.null)

\* C3 as amended: lead and both headers read and no enabled signature or
\* digest tag in the signature header, then rpmpkgRead returns OK, the
\* metadata header is handed out and the key id written is 0.
C3_NoSignatureOk ==
    (Returned /\ hdrinfo.rc = RPMRC_OK /\ sigtag = 0) =>
        (rc = RPMRC_OK /\ ~hdrp.null /\ keyidp = 0 /\ "KEYID" \in steps)

\* rpmpkgRead returned on a package whose headers were read with every
\* algorithm disabled
C3_Witness ==
    /\ pc = "returned"
    /\ hdrinfo.rc = RPMRC_OK
    /\ sigtag = 0
    /\ ts_vsflags = {RPMVSF_NOSHA1HEADER, RPMVSF_NODSAHEADER, RPMVSF_NORSAHEADER}
    /\ ~hdrp.null

\* C9: whenever rpmpkgRead has returned FAIL, *hdrp is NULL, *keyidp is
\* still 0 and none of the retrofits, the merge, the link and the key id
\* assignment of lines 562-594 has run.
C9_FailHandsOutNothing ==
    (Returned /\ rc = RPMRC_FAIL) =>
        (hdrp.null /\ keyidp = 0 /\ steps = {})

\* rpmpkgRead returned FAIL from the package-level check, after the metadata
\* header had been read
C9_Witness ==
    /\ pc = "returned"
    /\ rc = RPMRC_FAIL
    /\ hdrinfo.rc = RPMRC_OK
    /\ sigtag # 0

\* C10: in rpmpkgReadHeader a blob whose region was found has il = ril and
\* dl = rdl and headerSigVerify is not called for it; headerSigVerify is
\* called only for a blob whose region lookup returned NOTFOUND, with ril = 0.
C10_ExactSizeRegion ==
    hdrinfo.called =>
        /\ hdrinfo.regionrc = RPMRC_OK =>
              (/\ hdrinfo.il = hdrinfo.ril
               /\ hdrinfo.dl = hdrinfo.rdl
               /\ ~hdrinfo.sigVerify)
        /\ hdrinfo.sigVerify =>
              (hdrinfo.regionrc = RPMRC_NOTFOUND /\ hdrinfo.ril = 0)

\* rpmpkgReadHeader accepted a blob of two entries with a region
C10_Witness ==
    /\ hdrinfo.called
    /\ hdrinfo.regionrc = RPMRC_OK
    /\ hdrinfo.il >= 2
    /\ hdrinfo.rc = RPMRC_OK

=============================================================================
